---- MODULE Spec2Model ----
(***************************************************************************)
(* HBnB facade (part2/app/services/facade.py) over four in-memory          *)
(* repositories, with the entity validators of part2/app/models.           *)
(*                                                                         *)
(* Python strings are sequences of one-character strings, so that          *)
(* len(), strip(), the "in" test and split('@') are computed and not       *)
(* assumed.  Objects are records; a reference to an object is its id.      *)
(* Numbers are integers (the validators treat int and float alike; None    *)
(* and non-numeric values are not drawn as inputs).                        *)
(***************************************************************************)
EXTENDS Integers, Sequences, FiniteSets, TLC

VARIABLES
    user_repo,      \* HBnBFacade.user_repo:    id -> User object
    place_repo,     \* HBnBFacade.place_repo:   id -> Place object
    amenity_repo,   \* HBnBFacade.amenity_repo: id -> Amenity object
    review_repo,    \* HBnBFacade.review_repo:  the ids stored (keys of its storage)
    review_objs,    \* every Review object constructed and stored: id -> Review object
                    \* (a deleted review leaves review_repo, the object stays
                    \*  referenced from its place's review list)
    clock,          \* the time source read by BaseModel.__init__ and save(): it
                    \* advances with every timestamp an object keeps (the reading
                    \* of a constructor whose validation fails is dropped with
                    \* the object, and no later reading can tell)
    call            \* the last facade call: operation, arguments, outcome

vars == <<user_repo, place_repo, amenity_repo, review_repo, review_objs, clock, call>>

repos == <<user_repo, place_repo, amenity_repo, review_repo, review_objs>>

----------------------------------------------------------------------------
\* Bounds of the model.

MaxUsers == 1
MaxPlaces == 1
MaxAmenities == 1
MaxReviews == 2
MaxAmenityList == 2
MaxClock == 4

\* Program constants.

MaxNameLen == 50
MaxTitleLen == 100
MinRating == 1
MaxRating == 5
MaxLatitude == 90
MaxLongitude == 180

----------------------------------------------------------------------------
\* None, as a reference
NoRef == 0

\* Strings.

Chars(n, c) == [i \in 1..n |-> c]

Empty == <<>>
Blank == <<" ", " ">>
NameA == <<"a">>
NameB == <<"b", " ">>
LongName == Chars(MaxNameLen + 1, "x")
LongTitle == Chars(MaxTitleLen + 1, "x")
GoodEmail == <<"a", "@", "b", ".", "c">>
NoAtEmail == <<"a", ".", "b">>
NoDotEmail == <<"a", ".", "b", "@", "c">>

\* c in s
Contains(s, c) == \E i \in 1..Len(s) : s[i] = c

\* not s or not s.strip()
IsBlank(s) == Len(s) = 0 \/ \A i \in 1..Len(s) : s[i] = " "

\* s.split('@')[-1]: what follows the last '@', the whole of s without one
AfterLastAt(s) ==
    LET ats == {i \in 1..Len(s) : s[i] = "@"}
        last == IF ats = {} THEN 0 ELSE CHOOSE i \in ats : \A j \in ats : j <= i
    IN SubSeq(s, last + 1, Len(s))

----------------------------------------------------------------------------
\* Validators: the message of the ValueError raised, "" when none is.

NoError == ""

UserValidate(u) ==
    IF IsBlank(u.first_name) THEN "First name is required"
    ELSE IF Len(u.first_name) > MaxNameLen THEN "First name must not exceed 50 characters"
    ELSE IF IsBlank(u.last_name) THEN "Last name is required"
    ELSE IF Len(u.last_name) > MaxNameLen THEN "Last name must not exceed 50 characters"
    ELSE IF IsBlank(u.email) THEN "Email is required"
    ELSE IF ~Contains(u.email, "@") \/ ~Contains(AfterLastAt(u.email), ".")
         THEN "Invalid email format"
    ELSE NoError

AmenityValidate(a) ==
    IF IsBlank(a.name) THEN "Amenity name is required"
    ELSE IF Len(a.name) > MaxNameLen THEN "Amenity name must not exceed 50 characters"
    ELSE NoError

PlaceValidate(p) ==
    IF IsBlank(p.title) THEN "Title is required"
    ELSE IF Len(p.title) > MaxTitleLen THEN "Title must not exceed 100 characters"
    ELSE IF p.price <= 0 THEN "Price must be a positive value"
    ELSE IF ~(-MaxLatitude <= p.latitude /\ p.latitude <= MaxLatitude)
         THEN "Latitude must be between -90.0 and 90.0"
    ELSE IF ~(-MaxLongitude <= p.longitude /\ p.longitude <= MaxLongitude)
         THEN "Longitude must be between -180.0 and 180.0"
    ELSE IF p.owner = NoRef THEN "Owner is required"
    ELSE NoError

ReviewValidate(r) ==
    IF IsBlank(r.text) THEN "Review text is required"
    ELSE IF ~(MinRating <= r.rating /\ r.rating <= MaxRating)
         THEN "Rating must be an integer between 1 and 5"
    ELSE IF r.place_id = NoRef THEN "Place ID is required"
    ELSE IF r.user_id = NoRef THEN "User ID is required"
    ELSE NoError

----------------------------------------------------------------------------
\* BaseModel and InMemoryRepository.

\* BaseModel.__init__: a fresh id, created_at and updated_at set to now
BaseFields(id, now) == [id |-> id, created_at |-> now, updated_at |-> now]

\* BaseModel.save(): updated_at refreshed
Save(obj, now) == [obj EXCEPT !.updated_at = now]

\* uuid generation: an id no object of the type has
NewId(used) == Cardinality(used) + 1

\* InMemoryRepository.add
RepoAdd(repo, obj) == [i \in DOMAIN repo \cup {obj.id} |-> IF i = obj.id THEN obj ELSE repo[i]]

Has(repo, id) == id \in DOMAIN repo

\* InMemoryRepository.get: a reference to the object stored under the id, or None
Get(repo, id) == IF Has(repo, id) THEN id ELSE NoRef

\* an object with one entry changed (a mutation of the stored object)
Put(repo, obj) == [repo EXCEPT ![obj.id] = obj]

\* the for-loop of the update methods: setattr(obj, key, value) for every
\* item of the data whose key passes the filter
SetAttrs(obj, data, settable) ==
    [k \in DOMAIN obj |-> IF k \in DOMAIN data /\ k \in settable THEN data[k] ELSE obj[k]]

\* the ids a caller passes: every id of an object of the type, and one id
\* of no object (ids are opaque: the code only looks them up)
IdInputs(used) == used \cup {NewId(used)}

NoData == [none |-> TRUE]

\* what a call leaves for its caller: "ok" with the object's id, "none"
\* (None returned), "true"/"false", or "error" with the ValueError's message
Call(op, id, data, outcome, msg) ==
    [op |-> op, id |-> id, data |-> data, outcome |-> outcome, msg |-> msg]

\* return None / raise ValueError(msg) before anything is changed
ReturnNone(op, id) ==
    /\ call' = Call(op, id, NoData, "none", NoError)
    /\ UNCHANGED <<repos, clock>>

Raise(op, id, data, msg) ==
    /\ call' = Call(op, id, data, "error", msg)
    /\ UNCHANGED <<repos, clock>>

----------------------------------------------------------------------------
\* Users.

get_user(user_id) == user_repo[user_id]

UserInputs ==
    { [first_name |-> NameA, last_name |-> NameB, email |-> GoodEmail],
      [first_name |-> Blank, last_name |-> NameB, email |-> GoodEmail],
      [first_name |-> NameA, last_name |-> LongName, email |-> GoodEmail],
      [first_name |-> NameA, last_name |-> NameB, email |-> NoDotEmail] }

\* User.__init__
NewUser(id, now, d) ==
    BaseFields(id, now) @@
    [first_name |-> d.first_name, last_name |-> d.last_name, email |-> d.email,
     is_admin |-> FALSE, place_list |-> <<>>, reviews |-> <<>>]


\* create_user(user_data)
create_user ==
    /\ Cardinality(DOMAIN user_repo) < MaxUsers
    /\ \E d \in UserInputs :
        LET user == NewUser(NewId(DOMAIN user_repo), clock, d)
            err == UserValidate(user)
        IN IF err # NoError
           THEN Raise("create_user", NoRef, d, err)
           ELSE /\ clock < MaxClock
                /\ user_repo' = RepoAdd(user_repo, user)
                /\ call' = Call("create_user", user.id, d, "ok", NoError)
                /\ clock' = clock + 1
                /\ UNCHANGED <<place_repo, amenity_repo, review_repo, review_objs>>

\* update data for a user: allow-listed keys with valid and invalid values,
\* keys of attributes outside the allow-list, and a key that is no attribute
UserUpdates ==
    { [first_name |-> NameB, is_admin |-> TRUE],
      [first_name |-> Empty, email |-> NoAtEmail],
      [place_list |-> <<0>>, reviews |-> <<0>>, nickname |-> NameA,
       id |-> 0, created_at |-> 0, updated_at |-> 0] }

\* the keys update_user sets: hasattr(user, key) and key not in ['id', 'created_at']
\* (the attributes of a user are its fields; the names of its methods, which
\* hasattr accepts too, are not drawn as keys)
UserSettable(user) == DOMAIN user \ {"id", "created_at"}

\* update_user(user_id, update_data)
update_user ==
    \E user_id \in IdInputs(DOMAIN user_repo) :
        IF Get(user_repo, user_id) = NoRef
        THEN ReturnNone("update_user", user_id)
        ELSE \E d \in UserUpdates :
             /\ clock < MaxClock
             /\ LET user == SetAttrs(get_user(user_id), d, UserSettable(get_user(user_id)))
                IN user_repo' = Put(user_repo, Save(user, clock))
             /\ call' = Call("update_user", user_id, d, "ok", NoError)
             /\ clock' = clock + 1
             /\ UNCHANGED <<place_repo, amenity_repo, review_repo, review_objs>>

----------------------------------------------------------------------------
\* Amenities.

get_amenity(amenity_id) == amenity_repo[amenity_id]

AmenityNames == {NameA, Blank, LongName}

\* Amenity.__init__
NewAmenity(id, now, name) ==
    BaseFields(id, now) @@ [name |-> name]

\* create_amenity(amenity_data)
create_amenity ==
    /\ Cardinality(DOMAIN amenity_repo) < MaxAmenities
    /\ \E name \in AmenityNames :
        LET amenity == NewAmenity(NewId(DOMAIN amenity_repo), clock, name)
            err == AmenityValidate(amenity)
        IN IF err # NoError
           THEN Raise("create_amenity", NoRef, [name |-> name], err)
           ELSE /\ clock < MaxClock
                /\ amenity_repo' = RepoAdd(amenity_repo, amenity)
                /\ call' = Call("create_amenity", amenity.id, [name |-> name], "ok", NoError)
                /\ clock' = clock + 1
                /\ UNCHANGED <<user_repo, place_repo, review_repo, review_objs>>

AmenityUpdates ==
    { [name |-> NameB], [name |-> Empty], [name |-> Blank], [name |-> LongName],
      [id |-> 0, created_at |-> 0, updated_at |-> 0] }

\* the body of update_amenity's "if 'name' in amenity_data": the name is
\* assigned, validate() is called, and save() when it raised nothing.  The
\* amenity as the call leaves it, and the error raised.
\* (a faulty variant, save() called before validate(), against which C10 is tried)
SaveBeforeValidateAmenity(amenity, d, now) ==
    LET named == [amenity EXCEPT !.name = d.name]
    IN [obj |-> Save(named, now), err |-> AmenityValidate(named)]

RenameAmenity(amenity, d, now) ==
    LET named == [amenity EXCEPT !.name = d.name]
        err == AmenityValidate(named)
    IN [obj |-> IF err # NoError THEN named ELSE Save(named, now), err |-> err]

\* update_amenity(amenity_id, amenity_data)
update_amenity ==
    \E amenity_id \in IdInputs(DOMAIN amenity_repo) :
        IF Get(amenity_repo, amenity_id) = NoRef
        THEN ReturnNone("update_amenity", amenity_id)
        ELSE \E d \in AmenityUpdates :
        IF "name" \notin DOMAIN d
        THEN /\ call' = Call("update_amenity", amenity_id, d, "ok", NoError)
             /\ UNCHANGED <<repos, clock>>
        ELSE LET done == RenameAmenity(get_amenity(amenity_id), d, clock)
             IN /\ amenity_repo' = Put(amenity_repo, done.obj)
                /\ UNCHANGED <<user_repo, place_repo, review_repo, review_objs>>
                /\ IF done.err # NoError
                   THEN /\ call' = Call("update_amenity", amenity_id, d, "error", done.err)
                        /\ UNCHANGED clock
                   ELSE /\ clock < MaxClock
                        /\ call' = Call("update_amenity", amenity_id, d, "ok", NoError)
                        /\ clock' = clock + 1

----------------------------------------------------------------------------
\* Places.

get_place(place_id) == place_repo[place_id]

\* the amenity id lists a caller may pass: any order, repetitions, ids of
\* no stored amenity
AmenityLists ==
    UNION {[1..n -> IdInputs(DOMAIN amenity_repo)] : n \in 0..MaxAmenityList}


ValidPlace ==
    [title |-> NameA, price |-> 1, latitude |-> -MaxLatitude, longitude |-> MaxLongitude]

PlaceInputs ==
    { ValidPlace,
      [ValidPlace EXCEPT !.title = LongTitle],
      [ValidPlace EXCEPT !.price = 0],
      [ValidPlace EXCEPT !.latitude = MaxLatitude + 1],
      [ValidPlace EXCEPT !.longitude = -MaxLongitude - 1] }

\* the amenity lists passed with place fields d: every list with the valid
\* fields, none with fields that fail validation
AmenityListsFor(d) == IF d = ValidPlace THEN AmenityLists ELSE {<<>>}

\* a faulty Place.__init__ that leaves the owner unset, against which C1 is tried
NewPlaceOwnerNotSet(id, now, d, owner, amenities) ==
    BaseFields(id, now) @@
    [title |-> d.title, description |-> Empty, price |-> d.price,
     latitude |-> d.latitude, longitude |-> d.longitude,
     owner |-> NoRef, amenities |-> amenities, reviews |-> <<>>]

\* Place.__init__
NewPlace(id, now, d, owner, amenities) ==
    BaseFields(id, now) @@
    [title |-> d.title, description |-> Empty, price |-> d.price,
     latitude |-> d.latitude, longitude |-> d.longitude,
     owner |-> owner, amenities |-> amenities, reviews |-> <<>>]

\* a faulty amenity loop without the "if amenity" test, appending whatever
\* amenity_repo.get returned, against which C13 is tried
ResolveAmenitiesUnchecked(ids) ==
    [i \in 1..Len(ids) |-> Get(amenity_repo, ids[i])]

\* the amenity loop of create_place: the stored amenities named by the
\* list, in list order, an id of no stored amenity skipped
RECURSIVE ResolveAmenities(_)
ResolveAmenities(ids) ==
    IF ids = <<>> THEN <<>>
    ELSE IF Get(amenity_repo, Head(ids)) # NoRef
         THEN <<Get(amenity_repo, Head(ids))>> \o ResolveAmenities(Tail(ids))
         ELSE ResolveAmenities(Tail(ids))

\* create_place(place_data)
create_place ==
    /\ Cardinality(DOMAIN place_repo) < MaxPlaces
    /\ \E owner_id \in IdInputs(DOMAIN user_repo) :
        LET owner == Get(user_repo, owner_id)
        IN IF owner = NoRef
        THEN Raise("create_place", NoRef, [owner_id |-> owner_id], "Invalid owner_id")
        ELSE \E d \in PlaceInputs : \E ams \in AmenityListsFor(d) :
        LET data == [owner_id |-> owner_id, fields |-> d, amenities |-> ams]
            place == NewPlace(NewId(DOMAIN place_repo), clock, d, owner,
                              ResolveAmenities(ams))
            err == PlaceValidate(place)
        IN IF err # NoError
           THEN Raise("create_place", NoRef, data, err)
           ELSE /\ clock < MaxClock
                /\ place_repo' = RepoAdd(place_repo, place)
                /\ call' = Call("create_place", place.id, data, "ok", NoError)
                /\ clock' = clock + 1
                /\ UNCHANGED <<user_repo, amenity_repo, review_repo, review_objs>>

PlaceUpdates ==
    { [title |-> NameB, description |-> NameA],
      [price |-> 0, latitude |-> MaxLatitude + 1, longitude |-> MaxLongitude + 1],
      [owner |-> 0, amenities |-> <<0>>, reviews |-> <<0>>,
       id |-> 0, created_at |-> 0, updated_at |-> 0] }

\* allowed_fields of update_place
PlaceAllowed == {"title", "description", "price", "latitude", "longitude"}

\* a faulty variant returning None, against which C6 is tried
PlaceNotFoundReturnsNone(place_id) == ReturnNone("update_place", place_id)

\* update_place on an id of no place: raise ValueError("Place not found")
PlaceNotFound(place_id) == Raise("update_place", place_id, NoData, "Place not found")

\* update_place(place_id, update_data)
update_place ==
    \E place_id \in IdInputs(DOMAIN place_repo) :
        IF Get(place_repo, place_id) = NoRef
        THEN PlaceNotFound(place_id)
        ELSE \E d \in PlaceUpdates :
             /\ clock < MaxClock
             /\ LET place == SetAttrs(get_place(place_id), d, PlaceAllowed)
                IN place_repo' = Put(place_repo, Save(place, clock))
             /\ call' = Call("update_place", place_id, d, "ok", NoError)
             /\ clock' = clock + 1
             /\ UNCHANGED <<user_repo, amenity_repo, review_repo, review_objs>>

----------------------------------------------------------------------------
\* Reviews.

get_review(review_id) == review_objs[review_id]

\* InMemoryRepository.get_all: the objects stored, in insertion order
\* (ids are given out in increasing order)
GetAll(stored) ==
    LET RECURSIVE Upto(_)
        Upto(n) == IF n = 0 THEN <<>>
                   ELSE IF n \in stored THEN Append(Upto(n - 1), n) ELSE Upto(n - 1)
    IN Upto(Cardinality(DOMAIN review_objs))

get_all_reviews == GetAll(review_repo)

\* the list comprehension of get_reviews_by_place
ReviewsByPlace(stored, objs, place_id) ==
    SelectSeq(GetAll(stored), LAMBDA r : objs[r].place_id = place_id)

\* get_reviews_by_place(place_id): the stored reviews with that place_id
get_reviews_by_place(place_id) == ReviewsByPlace(review_repo, review_objs, place_id)

\* get_reviews_by_user(user_id)
get_reviews_by_user(user_id) ==
    SelectSeq(get_all_reviews, LAMBDA r : review_objs[r].user_id = user_id)

ReviewInputs ==
    { [text |-> NameA, rating |-> MinRating],
      [text |-> Blank, rating |-> MaxRating],
      [text |-> NameA, rating |-> MinRating - 1] }

\* Review.__init__
NewReview(id, now, d, place_id, user_id) ==
    BaseFields(id, now) @@
    [text |-> d.text, rating |-> d.rating, place_id |-> place_id, user_id |-> user_id]

\* a faulty Place.add_review with its membership test inverted, against which
\* C3 is tried
AddReviewTestInverted(place, review_id) ==
    IF \E i \in 1..Len(place.reviews) : place.reviews[i] = review_id
    THEN [place EXCEPT !.reviews = Append(@, review_id)]
    ELSE place

\* Place.add_review(review)
add_review(place, review_id) ==
    IF \E i \in 1..Len(place.reviews) : place.reviews[i] = review_id
    THEN place
    ELSE [place EXCEPT !.reviews = Append(@, review_id)]

\* a faulty variant checking the user before the place, against which C2 is
\* tried
UserCheckedFirst(place, user) ==
    IF user = NoRef THEN "Invalid user_id"
    ELSE IF place = NoRef THEN "Invalid place_id"
    ELSE NoError

\* the reference checks of create_review, place before user: the message
\* of the ValueError raised, "" when both were found
ReviewRefsError(place, user) ==
    IF place = NoRef THEN "Invalid place_id"
    ELSE IF user = NoRef THEN "Invalid user_id"
    ELSE NoError

\* create_review(review_data)
create_review ==
    /\ Cardinality(DOMAIN review_objs) < MaxReviews
    /\ \E place_id \in IdInputs(DOMAIN place_repo), user_id \in IdInputs(DOMAIN user_repo) :
        LET refs == [place_id |-> place_id, user_id |-> user_id]
            missing == ReviewRefsError(Get(place_repo, place_id), Get(user_repo, user_id))
        IN IF missing # NoError
           THEN Raise("create_review", NoRef, refs, missing)
           ELSE \E d \in ReviewInputs :
                LET data == refs @@ [fields |-> d]
                    review == NewReview(NewId(DOMAIN review_objs), clock, d,
                                        place_id, user_id)
                    err == ReviewValidate(review)
                IN IF err # NoError
                   THEN Raise("create_review", NoRef, data, err)
                   ELSE /\ clock < MaxClock
                        /\ review_objs' = RepoAdd(review_objs, review)
                        /\ review_repo' = review_repo \cup {review.id}
                        /\ place_repo' = Put(place_repo,
                                             add_review(get_place(place_id), review.id))
                        /\ call' = Call("create_review", review.id, data, "ok", NoError)
                        /\ clock' = clock + 1
                        /\ UNCHANGED <<user_repo, amenity_repo>>

ReviewUpdates ==
    { [text |-> NameB, rating |-> MaxRating],
      [text |-> Empty],
      [rating |-> MaxRating + 1],
      [place_id |-> 0, user_id |-> 0, id |-> 0, created_at |-> 0, updated_at |-> 0] }

\* a faulty allowed_fields that lets update_review set the references,
\* against which C11 is tried
ReviewAllowedWithRefs == {"text", "rating", "place_id", "user_id"}

\* allowed_fields of update_review
ReviewAllowed == {"text", "rating"}

\* update_review(review_id, update_data)
update_review ==
    \E review_id \in IdInputs(DOMAIN review_objs) :
        IF review_id \notin review_repo
        THEN ReturnNone("update_review", review_id)
        ELSE \E d \in ReviewUpdates :
             LET review == SetAttrs(get_review(review_id), d, ReviewAllowed)
                 err == ReviewValidate(review)
             IN IF err # NoError
                THEN /\ review_objs' = Put(review_objs, review)
                     /\ call' = Call("update_review", review_id, d, "error", err)
                     /\ UNCHANGED <<user_repo, place_repo, amenity_repo, review_repo, clock>>
                ELSE /\ clock < MaxClock
                     /\ review_objs' = Put(review_objs, Save(review, clock))
                     /\ call' = Call("update_review", review_id, d, "ok", NoError)
                     /\ clock' = clock + 1
                     /\ UNCHANGED <<user_repo, place_repo, amenity_repo, review_repo>>

\* a faulty delete_review that reports True without removing, against which C8
\* is tried
DeleteReviewNotRemoved ==
    \E review_id \in IdInputs(DOMAIN review_objs) :
        IF review_id \in review_repo
        THEN /\ call' = Call("delete_review", review_id, NoData, "true", NoError)
             /\ UNCHANGED <<repos, clock>>
        ELSE /\ call' = Call("delete_review", review_id, NoData, "false", NoError)
             /\ UNCHANGED <<repos, clock>>

\* a delete_review that also unlinks the review from its place's list, against
\* which C9 is tried
DeleteReviewCascades ==
    \E review_id \in IdInputs(DOMAIN review_objs) :
        IF review_id \in review_repo
        THEN /\ review_repo' = review_repo \ {review_id}
             /\ place_repo' =
                    [p \in DOMAIN place_repo |->
                        [place_repo[p] EXCEPT
                            !.reviews = SelectSeq(@, LAMBDA r : r # review_id)]]
             /\ call' = Call("delete_review", review_id, NoData, "true", NoError)
             /\ UNCHANGED <<user_repo, amenity_repo, review_objs, clock>>
        ELSE /\ call' = Call("delete_review", review_id, NoData, "false", NoError)
             /\ UNCHANGED <<repos, clock>>

\* delete_review(review_id)
delete_review ==
    \E review_id \in IdInputs(DOMAIN review_objs) :
        IF review_id \in review_repo
        THEN /\ review_repo' = review_repo \ {review_id}
             /\ call' = Call("delete_review", review_id, NoData, "true", NoError)
             /\ UNCHANGED <<user_repo, place_repo, amenity_repo, review_objs, clock>>
        ELSE /\ call' = Call("delete_review", review_id, NoData, "false", NoError)
             /\ UNCHANGED <<repos, clock>>

----------------------------------------------------------------------------
\* HBnBFacade.__init__: four empty repositories.

NoFunction == [i \in {} |-> i]

Init ==
    /\ user_repo = NoFunction
    /\ place_repo = NoFunction
    /\ amenity_repo = NoFunction
    /\ review_repo = {}
    /\ review_objs = NoFunction
    /\ clock = 1
    /\ call = Call("__init__", NoRef, NoData, "ok", NoError)

Next ==
    \/ create_user
    \/ update_user
    \/ create_amenity
    \/ update_amenity
    \/ create_place
    \/ update_place
    \/ create_review
    \/ update_review
    \/ delete_review

Spec == Init /\ [][Next]_vars

----------------------------------------------------------------------------
\* Properties.

Range(seq) == {seq[i] : i \in 1..Len(seq)}

Count(seq, x) == Cardinality({i \in 1..Len(seq) : seq[i] = x})

IsPrefix(a, b) == Len(a) <= Len(b) /\ SubSeq(b, 1, Len(a)) = a

\* title, price, latitude and longitude as the data model of a place asks
PlaceFieldsValid(d) ==
    /\ ~IsBlank(d.title) /\ Len(d.title) <= MaxTitleLen
    /\ d.price > 0
    /\ -MaxLatitude <= d.latitude /\ d.latitude <= MaxLatitude
    /\ -MaxLongitude <= d.longitude /\ d.longitude <= MaxLongitude

ReviewFieldsValid(d) ==
    ~IsBlank(d.text) /\ MinRating <= d.rating /\ d.rating <= MaxRating

ReviewLists(places) == [p \in DOMAIN places |-> places[p].reviews]

\* C1: create_place with an owner_id of no stored user fails with an error
\* and adds no place; with the id of a stored user and valid title, price,
\* latitude and longitude it succeeds, and get_place on the returned id
\* then returns the new place, whose owner is that user.
C1_CreatePlaceOwner ==
    [][call'.op = "create_place" =>
         IF ~Has(user_repo, call'.data.owner_id)
         THEN call'.outcome = "error" /\ place_repo' = place_repo
         ELSE PlaceFieldsValid(call'.data.fields) =>
                /\ call'.outcome = "ok"
                /\ ~Has(place_repo, call'.id)
                /\ Has(place_repo', call'.id)
                /\ place_repo'[call'.id].id = call'.id
                /\ place_repo'[call'.id].owner = call'.data.owner_id
                /\ place_repo'[call'.id].title = call'.data.fields.title]_vars

C1_Witness ==
    /\ call.op = "create_place" /\ call.outcome = "ok"
    /\ Has(user_repo, call.data.owner_id)
    /\ get_place(call.id).owner = call.data.owner_id

\* C2: create_review with a place_id of no stored place fails with "Invalid
\* place_id"; with a stored place and a user_id of no stored user it fails
\* with "Invalid user_id"; with both stored and an invalid text or rating it
\* fails too; and a create_review that fails leaves the review repository
\* and every place's review list as they were.
C2_CreateReviewFails ==
    [][call'.op = "create_review" =>
         /\ ~Has(place_repo, call'.data.place_id) =>
                call'.outcome = "error" /\ call'.msg = "Invalid place_id"
         /\ Has(place_repo, call'.data.place_id) /\ ~Has(user_repo, call'.data.user_id) =>
                call'.outcome = "error" /\ call'.msg = "Invalid user_id"
         /\ ( /\ Has(place_repo, call'.data.place_id)
              /\ Has(user_repo, call'.data.user_id)
              /\ ~ReviewFieldsValid(call'.data.fields) ) =>
                call'.outcome = "error"
         /\ call'.outcome = "error" =>
                /\ review_repo' = review_repo
                /\ review_objs' = review_objs
                /\ ReviewLists(place_repo') = ReviewLists(place_repo)]_vars

C2_Witness ==
    /\ call.op = "create_review" /\ call.outcome = "error"
    /\ call.msg = "Invalid user_id"
    /\ Has(place_repo, call.data.place_id)
    /\ ~Has(user_repo, call.data.user_id)

C4_FailedRenameNotPersisted ==
    [][call'.op = "update_amenity" /\ call'.outcome = "error" =>
         amenity_repo'[call'.id].name = amenity_repo[call'.id].name]_vars

\* C5: every entity stored in a repository satisfies the validation rules
\* of its type.
C5_StoredEntitiesValid ==
    /\ \A u \in DOMAIN user_repo : UserValidate(get_user(u)) = NoError
    /\ \A p \in DOMAIN place_repo : PlaceValidate(get_place(p)) = NoError
    /\ \A a \in DOMAIN amenity_repo : AmenityValidate(get_amenity(a)) = NoError
    /\ \A r \in review_repo : ReviewValidate(get_review(r)) = NoError

UpdateOps == {"update_user", "update_place", "update_amenity", "update_review"}

\* whether the repository an update operation works on holds the id
Stored(op, id) ==
    CASE op = "update_user" -> Has(user_repo, id)
      [] op = "update_place" -> Has(place_repo, id)
      [] op = "update_amenity" -> Has(amenity_repo, id)
      [] op = "update_review" -> id \in review_repo

\* C6, as claimed: every update_X on an id its repository does not hold
\* returns None, raises nothing, and leaves the repositories unchanged.
C6_AbsentIdReturnsNone ==
    [][call'.op \in UpdateOps /\ ~Stored(call'.op, call'.id) =>
         call'.outcome = "none" /\ repos' = repos]_vars

\* C6, amended: update_user, update_amenity and update_review on an id their
\* repository does not hold return None and raise nothing; update_place on
\* an id of no stored place raises ValueError("Place not found"); all four
\* leave the repositories unchanged.
C6_AbsentId ==
    [][call'.op \in UpdateOps /\ ~Stored(call'.op, call'.id) =>
         /\ repos' = repos
         /\ IF call'.op = "update_place"
            THEN call'.outcome = "error" /\ call'.msg = "Place not found"
            ELSE call'.outcome = "none" /\ call'.msg = NoError]_vars

C6_Witness ==
    /\ call.op = "update_place" /\ call.outcome = "error"
    /\ call.msg = "Place not found"
    /\ ~Has(place_repo, call.id)
    /\ DOMAIN user_repo # {}

\* the allow-list of each entity type
UserAllowed == {"first_name", "last_name", "email", "is_admin"}

AmenityAllowed == {"name"}

\* an update changed, beyond updated_at, only fields of the allow-list, and
\* did not take updated_at from the data
OnlyAllowed(before, after, allowed, data) ==
    /\ \A k \in DOMAIN before \ (allowed \cup {"updated_at"}) : after[k] = before[k]
    /\ "updated_at" \in DOMAIN data /\ after.updated_at # before.updated_at =>
           after.updated_at # data.updated_at

\* C7: an update_X on a stored entity changes only the fields of the type's
\* allow-list and updated_at, and never sets updated_at from the data.
C7_OnlyAllowListSet ==
    [][call'.op \in UpdateOps /\ Stored(call'.op, call'.id) =>
         CASE call'.op = "update_user" ->
                OnlyAllowed(user_repo[call'.id], user_repo'[call'.id],
                            UserAllowed, call'.data)
           [] call'.op = "update_place" ->
                OnlyAllowed(place_repo[call'.id], place_repo'[call'.id],
                            PlaceAllowed, call'.data)
           [] call'.op = "update_amenity" ->
                OnlyAllowed(amenity_repo[call'.id], amenity_repo'[call'.id],
                            AmenityAllowed, call'.data)
           [] call'.op = "update_review" ->
                OnlyAllowed(review_objs[call'.id], review_objs'[call'.id],
                            ReviewAllowed, call'.data)]_vars

\* C8: delete_review on the id of a stored review returns True and removes
\* it, so that the id is no longer stored; on an id that is not stored (one
\* deleted before, or one never stored) it returns False and changes nothing.
C8_DeleteReview ==
    [][call'.op = "delete_review" =>
         IF call'.id \in review_repo
         THEN /\ call'.outcome = "true"
              /\ review_repo' = review_repo \ {call'.id}
         ELSE /\ call'.outcome = "false"
              /\ repos' = repos]_vars

C8_Witness ==
    /\ call.op = "delete_review" /\ call.outcome = "false"
    /\ call.id \in DOMAIN review_objs
    /\ call.id \notin review_repo

\* C9: delete_review does not cascade: after a successful delete_review the
\* place repository is unchanged, the review list of the review's place
\* still holds the review, the review is not stored and get_reviews_by_place
\* of its place does not return it; and no step shortens or reorders a
\* place's review list.
C9_DeleteDoesNotCascade ==
    [][/\ \A p \in DOMAIN place_repo :
            Has(place_repo', p) /\ IsPrefix(place_repo[p].reviews, place_repo'[p].reviews)
       /\ call'.op = "delete_review" /\ call'.outcome = "true" =>
            LET place_id == review_objs[call'.id].place_id
            IN /\ place_repo' = place_repo
               /\ call'.id \in Range(place_repo'[place_id].reviews)
               /\ call'.id \notin review_repo'
               /\ call'.id \notin Range(ReviewsByPlace(review_repo', review_objs',
                                                       place_id))]_vars

C9_Witness ==
    /\ call.op = "delete_review" /\ call.outcome = "true"
    /\ call.id \notin review_repo
    /\ call.id \in Range(get_place(get_review(call.id).place_id).reviews)

\* the entity an update operation works on, in the given repositories
Entity(users, places, amenities, reviews, op, id) ==
    CASE op = "update_user" -> users[id]
      [] op = "update_place" -> places[id]
      [] op = "update_amenity" -> amenities[id]
      [] op = "update_review" -> reviews[id]

C11_ReferentialIntegrity ==
    /\ \A p \in DOMAIN place_repo : Has(user_repo, get_place(p).owner)
    /\ \A r \in review_repo :
          /\ Has(place_repo, get_review(r).place_id)
          /\ Has(user_repo, get_review(r).user_id)

\* a stored review of a stored place with a stored owner, after an
\* update_review on it that assigned fields and then raised
C11_Witness ==
    /\ call.op = "update_review" /\ call.outcome = "error"
    /\ call.id \in review_repo
    /\ Has(place_repo, get_review(call.id).place_id)
    /\ Has(user_repo, get_review(call.id).user_id)
    /\ Has(user_repo, get_place(get_review(call.id).place_id).owner)

\* C12: the amenities of every stored place hold each amenity at most once,
\* whatever list of amenity ids create_place was given.
C12_AmenitiesFormSet ==
    \A p \in DOMAIN place_repo :
        \A a \in Range(get_place(p).amenities) : Count(get_place(p).amenities, a) = 1

\* C13: a create_place with a stored owner and valid fields succeeds whatever
\* amenity ids its list holds, stored or not; the created place's amenities
\* are the ids of the list that are in the amenity repository, in list order,
\* the others dropped; and no create_place leaves the amenity repository
\* changed.
C13_UnknownAmenitiesDropped ==
    [][call'.op = "create_place" /\ "fields" \in DOMAIN call'.data =>
         /\ amenity_repo' = amenity_repo
         /\ Has(user_repo, call'.data.owner_id) /\ call'.data.fields = ValidPlace =>
              /\ call'.outcome = "ok"
              /\ Has(place_repo', call'.id)
              /\ place_repo'[call'.id].amenities =
                     SelectSeq(call'.data.amenities,
                               LAMBDA a : a \in DOMAIN amenity_repo)]_vars

\* a place created from a list naming a stored amenity and an id of no
\* stored amenity, holding fewer amenities than the list has ids
C13_Witness ==
    /\ call.op = "create_place" /\ call.outcome = "ok"
    /\ \E a \in Range(call.data.amenities) : Has(amenity_repo, a)
    /\ \E a \in Range(call.data.amenities) : ~Has(amenity_repo, a)
    /\ Has(place_repo, call.id)
    /\ Len(get_place(call.id).amenities) = 1
    /\ Len(call.data.amenities) = 2

====
